---- MODULE Spec2Model ----
(***************************************************************************)
(* A model of the ADAS routing dashboard (src/app.py):                     *)
(*   - the route synthesis block run by INITIALIZE ROUTE and the session   *)
(*     held route cleared by CLEAR ROUTE (specification Spec, FairSpec);   *)
(*   - the complexity scoring function calculate_complexity, statement by  *)
(*     statement, and the occlusion label get_solar_occlusion_hours        *)
(*     (specification ScoreSpec).                                          *)
(***************************************************************************)
EXTENDS Integers, Sequences, FiniteSets, TLC

\* ------------------------------------------------------------------ bounds
\* The road graphs explored: at most MaxNodes intersections, at most MaxEdges
\* one-way edges.
MaxNodes == 3
MaxEdges == 3

\* ------------------------------------------------------- program constants
max_waypoints == 15
SampleSize == 50

\* Optional values (Python None): the empty tuple is None, <<x>> holds x.
None == << >>
Some(x) == <<x>>

Min(a, b) == IF a <= b THEN a ELSE b
Abs(a) == IF a < 0 THEN -a ELSE a

\* ------------------------------------------------------------- road graph
\* Intersections are numbered; intersection n lies on a unit grid two columns
\* wide (projected coordinates G_proj.nodes[n]['x'], ['y']).
NodeX(n) == (n - 1) % 2
NodeY(n) == (n - 1) \div 2

\* The length of the edge u -> v in metres: two units for every grid step
\* along a street, three for a diagonal step (a diagonal is shorter than the
\* way round the corner).  Where the source graph holds parallel edges, this
\* is the shortest of them, the one both nx.shortest_path and route_to_gdf take.
EdgeLength(G, u, v) ==
  LET dx == Abs(NodeX(u) - NodeX(v))
      dy == Abs(NodeY(u) - NodeY(v))
  IN  G.unit * (2 * (dx + dy) - Min(dx, dy))

\* The units of length a graph may use: short blocks, on which the waypoint
\* cap ends the loop, and long ones, on which the distance does.
LenUnits == {1, 3000}

AllPairs(n) == {e \in (1..n) \X (1..n) : e[1] # e[2]}

\* The graphs ox.graph_from_point may return for the depot, with the node
\* nearest to the depot.  The graph without nodes has no nearest node.
Graphs ==
  {[nodes |-> {}, edges |-> {}, unit |-> 1, orig |-> 0]}
  \cup
  UNION {{[nodes |-> 1..n, edges |-> E, unit |-> u, orig |-> o] :
            E \in {F \in SUBSET AllPairs(n) : Cardinality(F) <= MaxEdges},
            u \in LenUnits, o \in 1..n} : n \in 1..MaxNodes}

\* Squared math.hypot between two nodes: max() over hypot picks the same
\* nodes as max() over its square.
Hypot2(a, b) == (NodeX(a) - NodeX(b)) * (NodeX(a) - NodeX(b))
                + (NodeY(a) - NodeY(b)) * (NodeY(a) - NodeY(b))

\* random.sample(nodes, min(50, len(nodes))): the sets of nodes a sample may hold.
Samples(G) == {S \in SUBSET G.nodes : Cardinality(S) = Min(SampleSize, Cardinality(G.nodes))}

\* max(sample, key=hypot): the first maximum in sample order; the order is
\* random, so any node at the maximal distance may be the one returned.
Farthest(S, cur) == {n \in S : \A m \in S : Hypot2(cur, m) <= Hypot2(cur, n)}

\* Sum of the edge lengths along a node sequence.
RECURSIVE RouteLength(_, _)
RouteLength(G, route) ==
  IF Len(route) < 2 THEN 0
  ELSE EdgeLength(G, route[1], route[2]) + RouteLength(G, Tail(route))

\* Every consecutive pair of the sequence is an edge of the graph.
IsWalk(G, route) == \A i \in 1..(Len(route) - 1) : <<route[i], route[i + 1]>> \in G.edges

\* The simple paths from u to v.
SimplePaths(G, u, v) ==
  UNION {{p \in [1..k -> G.nodes] :
            /\ p[1] = u /\ p[k] = v
            /\ \A i, j \in 1..k : i # j => p[i] # p[j]
            /\ IsWalk(G, p)} : k \in 1..Cardinality(G.nodes)}

\* nx.shortest_path(G_proj, u, v, weight='length'): the paths of least total
\* length (networkx returns one of them); empty when v is unreachable, which
\* is where networkx raises NetworkXNoPath.
ShortestPaths(G, u, v) ==
  {p \in SimplePaths(G, u, v) :
     \A q \in SimplePaths(G, u, v) : RouteLength(G, p) <= RouteLength(G, q)}

\* ox.routing.route_to_gdf(G_proj, route): raises on a route without edges
\* (graph_to_gdfs of the one-node subgraph: "Graph contains no edges") and on
\* a pair of consecutive nodes that no edge joins (G[u][v] KeyError).
RouteToGdfOk(G, route) == Len(route) >= 2 /\ IsWalk(G, route)

\* ------------------------------------------------------------ route request
\* drive_time_options: the locked intervals of the select box, in minutes.
drive_time_options == {30, 60, 120, 240}

\* target_distance_m = drive_time_mins * 60 * 13.4, in tenths of a metre.
TargetDistanceTenths(mins) == mins * 60 * 134

\* The while condition without the waypoint cap.
LoopGuard_NoCap(acc, wp, mins) == acc * 100 < TargetDistanceTenths(mins) * 8

\* The while condition: accumulated_length < target_distance_m * 0.8 and
\* waypoints < max_waypoints (lengths in metres; both sides times 100).
LoopGuard(acc, wp, mins) ==
  /\ acc * 100 < TargetDistanceTenths(mins) * 8
  /\ wp < max_waypoints

\* [(G.nodes[n]['y'], G.nodes[n]['x']) for n in path]
RouteCoords(route) == [i \in 1..Len(route) |-> <<NodeY(route[i]), NodeX(route[i])>>]

\* route_metrics of a route of total_length_m metres: 'dist' in miles,
\* total_length_m * 0.000621371, kept as the pair <<a, b>> that stands for
\* a / 10^6 + b / 10^9 (the product itself exceeds the checker's integers);
\* 'time' in minutes, total_length_m / 13.4 / 60, kept as numerator and
\* denominator; 'nodes' the number of nodes of the path.
RouteMetrics(total_length_m, route) ==
  [dist |-> <<total_length_m * 621, total_length_m * 371>>,
   time |-> <<total_length_m * 10, 134 * 60>>,
   nodes |-> Len(route)]

VARIABLES
  G,                  \* the road graph around the depot, with orig
  pc,                 \* where the script is: idle, or a place in the synthesis block
  drive_time_mins,    \* the selected duration of the running synthesis
  path, current_node, accumulated_length, waypoints,   \* the loop's variables
  next_dest,          \* the farthest node of the last sample
  route_coords, route_metrics,   \* st.session_state
  status,             \* the sidebar message of this run: none, success, error
  row, weather, score, step,     \* calculate_complexity: arguments, local, place
  occlusion_risk                 \* the label get_solar_occlusion_hours returned

routeVars == <<pc, drive_time_mins, path, current_node, accumulated_length,
               waypoints, next_dest, route_coords, route_metrics, status>>
scoreVars == <<row, weather, score, step, occlusion_risk>>
vars == <<G, routeVars, scoreVars>>

loopVars == <<path, current_node, accumulated_length, waypoints>>

\* The synthesis block's locals outside a run.
NoLocals ==
  /\ path' = << >>
  /\ current_node' = 0
  /\ accumulated_length' = 0
  /\ waypoints' = 0
  /\ next_dest' = 0
  /\ drive_time_mins' = 0

\* The scoring variables at rest.
NoRow == [cols |-> {}, hinHIN_Status |-> None, hinRank |-> None, fld_FLD |-> None, bearing |-> None]
ScoreIdle == row = NoRow /\ weather = None /\ score = 0 /\ step = "idle" /\ occlusion_risk = ""

Init ==
  /\ G \in Graphs
  /\ pc = "idle"
  /\ drive_time_mins = 0
  /\ path = << >>
  /\ current_node = 0
  /\ accumulated_length = 0
  /\ waypoints = 0
  /\ next_dest = 0
  /\ route_coords = None
  /\ route_metrics = None
  /\ status = "none"
  /\ ScoreIdle

\* INITIALIZE ROUTE pressed with a duration selected: the script reruns and
\* enters the synthesis block.
InitializeRoute(mins) ==
  /\ pc = "idle"
  /\ pc' = "graph"
  /\ drive_time_mins' = mins
  /\ status' = "none"
  /\ UNCHANGED <<G, path, current_node, accumulated_length, waypoints, next_dest,
                 route_coords, route_metrics, scoreVars>>

\* An outer except that also drops the stored route.
RoutingError_Clearing ==
  /\ status' = "error"
  /\ pc' = "idle"
  /\ NoLocals
  /\ route_coords' = None
  /\ route_metrics' = None
  /\ UNCHANGED <<G, scoreVars>>

\* The outer except: st.sidebar.error, nothing else.
RoutingError ==
  /\ status' = "error"
  /\ pc' = "idle"
  /\ NoLocals
  /\ UNCHANGED <<G, route_coords, route_metrics, scoreVars>>

\* ox.graph_from_point raises (download failure, no drivable network).
GraphDownloadFails ==
  /\ pc = "graph"
  /\ RoutingError

\* The graph has no nodes: graph_from_point / nearest_nodes raise.
GraphEmpty ==
  /\ pc = "graph"
  /\ G.nodes = {}
  /\ RoutingError

\* The graph is built and projected, orig found, the loop's variables set.
GraphBuilt ==
  /\ pc = "graph"
  /\ G.nodes # {}
  /\ path' = <<G.orig>>
  /\ current_node' = G.orig
  /\ accumulated_length' = 0
  /\ waypoints' = 0
  /\ pc' = "while"
  /\ UNCHANGED <<G, drive_time_mins, next_dest, route_coords, route_metrics, status, scoreVars>>

\* One pass of the while loop begins: the sample is drawn and its farthest
\* node n becomes next_dest.
SampleFarthest(n) ==
  /\ pc = "while"
  /\ LoopGuard(accumulated_length, waypoints, drive_time_mins)
  /\ \E S \in Samples(G) : n \in Farthest(S, current_node)
  /\ next_dest' = n
  /\ pc' = "try"
  /\ UNCHANGED <<G, drive_time_mins, loopVars, route_coords, route_metrics, status, scoreVars>>

\* A try body that assigns the sub-path's length instead of adding it.
Extend_Assign(sub_path) ==
  /\ path' = path \o Tail(sub_path)
  /\ accumulated_length' = RouteLength(G, sub_path)
  /\ current_node' = next_dest
  /\ waypoints' = waypoints + 1

\* The successful try body with sub_path: the four variables advance.
Extend(sub_path) ==
  /\ path' = path \o Tail(sub_path)
  /\ accumulated_length' = accumulated_length + RouteLength(G, sub_path)
  /\ current_node' = next_dest
  /\ waypoints' = waypoints + 1

\* An except branch that counts the failed attempt as a waypoint.
Absorb_Counting ==
  /\ waypoints' = waypoints + 1
  /\ UNCHANGED <<path, current_node, accumulated_length>>

\* except Exception: pass
Absorb == UNCHANGED loopVars

\* The try statement of the loop body: shortest_path, route_to_gdf, extend.
TryExtend ==
  /\ pc = "try"
  /\ \/ \E sub_path \in ShortestPaths(G, current_node, next_dest) :
          IF RouteToGdfOk(G, sub_path) THEN Extend(sub_path) ELSE Absorb
     \/ ShortestPaths(G, current_node, next_dest) = {} /\ Absorb
  /\ pc' = "while"
  /\ UNCHANGED <<G, drive_time_mins, next_dest, route_coords, route_metrics, status, scoreVars>>

\* The while condition is false: the loop is left.
ExitLoop ==
  /\ pc = "while"
  /\ ~LoopGuard(accumulated_length, waypoints, drive_time_mins)
  /\ pc' = "final"
  /\ UNCHANGED <<G, drive_time_mins, loopVars, next_dest, route_coords, route_metrics,
                 status, scoreVars>>

\* A final leg routed from the depot to the current node.
FinalLeg_Swapped ==
  /\ pc = "final"
  /\ \/ \E home_path \in ShortestPaths(G, G.orig, current_node) :
          path' = path \o Tail(home_path)
     \/ ShortestPaths(G, G.orig, current_node) = {} /\ path' = path
  /\ pc' = "metrics"
  /\ UNCHANGED <<G, drive_time_mins, current_node, accumulated_length, waypoints,
                 next_dest, route_coords, route_metrics, status, scoreVars>>

\* Final leg: the shortest path home is appended, or nothing when none exists.
FinalLeg ==
  /\ pc = "final"
  /\ \/ \E home_path \in ShortestPaths(G, current_node, G.orig) :
          path' = path \o Tail(home_path)
     \/ ShortestPaths(G, current_node, G.orig) = {} /\ path' = path
  /\ pc' = "metrics"
  /\ UNCHANGED <<G, drive_time_mins, current_node, accumulated_length, waypoints,
                 next_dest, route_coords, route_metrics, status, scoreVars>>

\* route_coords, route_to_gdf of the whole path, the metrics, the session
\* state and the success message; route_to_gdf raising goes to the outer except.
Compile ==
  /\ pc = "metrics"
  /\ IF RouteToGdfOk(G, path)
       THEN /\ route_coords' = Some(RouteCoords(path))
            /\ route_metrics' = Some(RouteMetrics(RouteLength(G, path), path))
            /\ status' = "success"
       ELSE /\ status' = "error"
            /\ UNCHANGED <<route_coords, route_metrics>>
  /\ pc' = "idle"
  /\ NoLocals
  /\ UNCHANGED <<G, scoreVars>>

\* CLEAR ROUTE, shown while the session holds a route; st.rerun.
ClearRoute ==
  /\ pc = "idle"
  /\ route_coords # None /\ route_coords # Some(<< >>)
  /\ route_coords' = None
  /\ route_metrics' = None
  /\ status' = "none"
  /\ UNCHANGED <<G, drive_time_mins, loopVars, next_dest, pc, scoreVars>>

Next ==
  \/ \E mins \in drive_time_options : InitializeRoute(mins)
  \/ GraphDownloadFails
  \/ GraphEmpty
  \/ GraphBuilt
  \/ \E n \in G.nodes : SampleFarthest(n)
  \/ TryExtend
  \/ ExitLoop
  \/ FinalLeg
  \/ Compile
  \/ ClearRoute

Spec == Init /\ [][Next]_vars

\* The synthesis block runs to its end once started, and the random sampler
\* returns every node it can return again and again.
FairSpec ==
  /\ Init /\ [][Next]_vars
  /\ WF_vars(Next)
  /\ \A n \in 1..MaxNodes : SF_vars(SampleFarthest(n))

\* ------------------------------------------------------- complexity scoring
\* Bound of the scoring inputs: the largest hinRank tried.
MaxRank == 1000000

\* Scores are kept in fiftieths of a point: (rank / 1000) * 20 is rank / 50,
\* so every score of an integer rank is a whole number of fiftieths.
PointUnit == 1000 \div 20

\* The columns of a segment row and the rows scored.  A column a row lacks
\* reads as the default of row.get; None in a column is NaN.
RowGet(r, key, default) == IF key \in r.cols THEN r[key] ELSE default

HinRanks == {0, 1, 49, 50, 500, 999, 1000, 1001, 2000, MaxRank}
Bearings == {0, 90, 180, 359}
Rows ==
  {r \in [cols : {{"hinHIN_Status", "hinRank", "fld_FLD", "bearing"},
                  {"hinHIN_Status", "fld_FLD", "bearing"}},
          hinHIN_Status : {None, Some("HIN")},
          hinRank : {None} \cup {Some(k) : k \in HinRanks},
          fld_FLD : {None, Some("FLOOD_AE/A"), Some("X")},
          bearing : {None} \cup {Some(b) : b \in Bearings}] :
     "hinRank" \notin r.cols => r.hinRank = None}

\* The weather snapshots of get_openweather_data, None on a gateway failure.
Weathers ==
  {None} \cup
  {Some(w) : w \in [conditions : {"Rain", "Thunderstorm", "Drizzle", "Clear"},
                    solar_altitude : {-5, 0, 10, 15, 16},
                    solar_azimuth : {0, 95, 105, 106, 300, 344, 345}]}

\* pd.notna
NotNa(x) == x # None

\* max where the code has min.
ScoreMin_Max(a, b) == IF a >= b THEN a ELSE b

\* Python's min, as calculate_complexity uses it for the rank cap and the
\* final clamp.
ScoreMin(a, b) == IF a <= b THEN a ELSE b

\* A rank bonus without its cap.
RankScore_Uncapped(rank) ==
  IF NotNa(rank) THEN (rank[1] * 20 * PointUnit) \div 1000 ELSE 0

\* rank_score = min(20, (rank / 1000) * 20) if pd.notna(rank) else 0
RankScore(rank) ==
  IF NotNa(rank) THEN ScoreMin(20 * PointUnit, (rank[1] * 20 * PointUnit) \div 1000) ELSE 0

\* calculate_complexity(row, weather) is called: score = 20.
ScoreCall(r, w) ==
  /\ step = "idle"
  /\ row' = r
  /\ weather' = w
  /\ score' = 20 * PointUnit
  /\ step' = "hin"
  /\ UNCHANGED <<G, routeVars, occlusion_risk>>

\* 1. HIN Network
ScoreHin ==
  /\ step = "hin"
  /\ score' = IF NotNa(RowGet(row, "hinHIN_Status", None))
                THEN score + 10 * PointUnit + RankScore(RowGet(row, "hinRank", Some(0)))
                ELSE score
  /\ step' = "flood"
  /\ UNCHANGED <<G, routeVars, row, weather, occlusion_risk>>

\* A flood block that scores a flood zone only when there is a weather snapshot.
ScoreFlood_NeedsWeather ==
  /\ step = "flood"
  /\ score' = IF RowGet(row, "fld_FLD", None) = Some("FLOOD_AE/A") /\ weather # None
                THEN IF weather[1].conditions \in {"Rain", "Thunderstorm", "Drizzle"}
                       THEN score + 25 * PointUnit
                       ELSE score + 10 * PointUnit
                ELSE score
  /\ step' = "glare"
  /\ UNCHANGED <<G, routeVars, row, weather, occlusion_risk>>

\* 2. Flood Risk
ScoreFlood ==
  /\ step = "flood"
  /\ score' = IF RowGet(row, "fld_FLD", None) = Some("FLOOD_AE/A")
                THEN IF weather # None
                        /\ weather[1].conditions \in {"Rain", "Thunderstorm", "Drizzle"}
                       THEN score + 25 * PointUnit
                       ELSE score + 10 * PointUnit
                ELSE score
  /\ step' = "glare"
  /\ UNCHANGED <<G, routeVars, row, weather, occlusion_risk>>

\* A glare block that misses the wraparound at 360 degrees.
ScoreGlare_NoWrap ==
  /\ step = "glare"
  /\ LET bearing == RowGet(row, "bearing", None)
     IN  score' = IF NotNa(bearing) /\ weather # None
                    THEN LET alt == weather[1].solar_altitude
                             azi == weather[1].solar_azimuth
                             diff == Abs(bearing[1] - azi)
                         IN  IF 0 <= alt /\ alt <= 15 /\ diff <= 15
                               THEN score + 20 * PointUnit
                               ELSE score
                    ELSE score
  /\ step' = "return"
  /\ UNCHANGED <<G, routeVars, row, weather, occlusion_risk>>

\* 3. Solar Glare
ScoreGlare ==
  /\ step = "glare"
  /\ LET bearing == RowGet(row, "bearing", None)
     IN  score' = IF NotNa(bearing) /\ weather # None
                    THEN LET alt == weather[1].solar_altitude
                             azi == weather[1].solar_azimuth
                             diff == Abs(bearing[1] - azi)
                         IN  IF 0 <= alt /\ alt <= 15 /\ (diff <= 15 \/ diff >= 345)
                               THEN score + 20 * PointUnit
                               ELSE score
                    ELSE score
  /\ step' = "return"
  /\ UNCHANGED <<G, routeVars, row, weather, occlusion_risk>>

\* return min(100, score)
ScoreReturn ==
  /\ step = "return"
  /\ score' = ScoreMin(100 * PointUnit, score)
  /\ step' = "done"
  /\ UNCHANGED <<G, routeVars, row, weather, occlusion_risk>>

\* roads_gdf.apply takes the score; the next row is scored by a new call.
ScoreTaken ==
  /\ step = "done"
  /\ row' = NoRow
  /\ weather' = None
  /\ score' = 0
  /\ step' = "idle"
  /\ UNCHANGED <<G, routeVars, occlusion_risk>>

\* The bearings labelled, around the bounds of the two ranges, and the rows
\* that carry them.
LabelBearings == {0, 59, 60, 75, 120, 121, 180, 239, 240, 270, 300, 301, 359}
LabelRows ==
  {[r EXCEPT !.bearing = b] :
     r \in {q \in Rows : q.bearing = None /\ q.hinRank \in {None, Some(2000)}},
     b \in {None} \cup {Some(x) : x \in LabelBearings}}

\* An occlusion label whose ranges leave their bounds out.
get_solar_occlusion_hours_Strict(bearing) ==
  IF ~NotNa(bearing) THEN "Unknown"
  ELSE IF 60 < bearing[1] /\ bearing[1] < 120 THEN "Sunrise (approx 6:30 AM - 8:30 AM)"
  ELSE IF 240 < bearing[1] /\ bearing[1] < 300 THEN "Sunset (approx 5:30 PM - 7:30 PM)"
  ELSE "No Issue (North/South)"

\* get_solar_occlusion_hours(bearing): pd.isna first, then the two ranges.
get_solar_occlusion_hours(bearing) ==
  IF ~NotNa(bearing) THEN "Unknown"
  ELSE IF 60 <= bearing[1] /\ bearing[1] <= 120 THEN "Sunrise (approx 6:30 AM - 8:30 AM)"
  ELSE IF 240 <= bearing[1] /\ bearing[1] <= 300 THEN "Sunset (approx 5:30 PM - 7:30 PM)"
  ELSE "No Issue (North/South)"

\* roads_gdf['bearing'].apply(get_solar_occlusion_hours) reaches row r, with
\* the snapshot w in weather_data.
OcclusionApply(r, w) ==
  /\ step = "idle"
  /\ row' = r
  /\ weather' = w
  /\ occlusion_risk' = get_solar_occlusion_hours(r.bearing)
  /\ step' = "labelled"
  /\ UNCHANGED <<G, routeVars, score>>

\* The label is stored in the occlusion_risk column; the next row follows.
OcclusionTaken ==
  /\ step = "labelled"
  /\ row' = NoRow
  /\ weather' = None
  /\ occlusion_risk' = ""
  /\ step' = "idle"
  /\ UNCHANGED <<G, routeVars, score>>

ScoreInit ==
  /\ G = [nodes |-> {}, edges |-> {}, unit |-> 1, orig |-> 0]
  /\ pc = "idle"
  /\ drive_time_mins = 0
  /\ path = << >>
  /\ current_node = 0
  /\ accumulated_length = 0
  /\ waypoints = 0
  /\ next_dest = 0
  /\ route_coords = None
  /\ route_metrics = None
  /\ status = "none"
  /\ ScoreIdle

ScoreNext ==
  \/ step = "idle" /\ \E r \in Rows, w \in Weathers : ScoreCall(r, w)
  \/ ScoreHin
  \/ ScoreFlood
  \/ ScoreGlare
  \/ ScoreReturn
  \/ ScoreTaken
  \/ step = "idle" /\ \E r \in LabelRows, w \in Weathers : OcclusionApply(r, w)
  \/ OcclusionTaken

\* calculate_complexity applied to every row and weather snapshot of the bounds.
ScoreSpec == ScoreInit /\ [][ScoreNext]_vars

\* ------------------------------------------------------------------ claims

\* C1: in every reachable state of route synthesis the waypoint counter lies
\* in 0..max_waypoints: no more than max_waypoints extension iterations succeed.
C1_WaypointsBounded == waypoints \in 0..max_waypoints

\* C1 witness: the loop has been left by the waypoint cap, the distance not reached.
C1_Witness ==
  /\ pc = "final"
  /\ waypoints = max_waypoints
  /\ accumulated_length * 100 < TargetDistanceTenths(drive_time_mins) * 8

\* A shortest path from the node current at loop exit back to the origin exists.
ClosingPathExists == ShortestPaths(G, current_node, G.orig) # {}

\* C2: once the final leg has run, if a shortest path from the node current
\* at loop exit to the origin exists, the assembled path starts and ends at
\* the origin.
C2_ClosedLoop ==
  (pc = "metrics" /\ ClosingPathExists) =>
     (path[1] = G.orig /\ path[Len(path)] = G.orig)

\* C2 witness: a route closed by a final leg that had to travel.
C2_Witness ==
  /\ pc = "metrics"
  /\ ClosingPathExists
  /\ current_node # G.orig
  /\ path[Len(path)] = G.orig

\* C3 (as claimed): whenever the loop is entered it is eventually left and the
\* closing leg attempted.
C3_LoopExits == (pc = "while") ~> (pc = "final")

\* C4 (as claimed): on the graph of the origin alone, synthesis ends with the
\* one-node route of distance zero.
C4_SingleNodeRoute ==
  (pc = "while" /\ G.nodes = {1} /\ G.edges = {})
     ~> (/\ pc = "idle"
         /\ status = "success"
         /\ route_coords = Some(RouteCoords(<<G.orig>>))
         /\ route_metrics = Some(RouteMetrics(0, <<G.orig>>)))

\* The try body of this pass fails: no path to next_dest, or no length for it.
TryFails ==
  \A sub_path \in ShortestPaths(G, current_node, next_dest) : ~RouteToGdfOk(G, sub_path)

\* C5: a failing extension iteration leaves path, accumulated_length,
\* current_node and waypoints unchanged, reports no error and returns to the
\* loop head, where the next pass samples again; within the loop the four
\* change only on a successful iteration, and then all four are updated.
C5_FailureAbsorbed ==
  [][(pc \in {"while", "try"}) =>
       /\ (pc = "try" /\ TryFails) =>
            /\ UNCHANGED loopVars
            /\ pc' = "while"
            /\ status' = status
            /\ LoopGuard(accumulated_length', waypoints', drive_time_mins')
       /\ (loopVars' # loopVars) =>
            /\ pc = "try" /\ ~TryFails
            /\ waypoints' = waypoints + 1
            /\ current_node' = next_dest
            /\ \E sub_path \in ShortestPaths(G, current_node, next_dest) :
                 /\ path' = path \o Tail(sub_path)
                 /\ accumulated_length' = accumulated_length + RouteLength(G, sub_path)
    ]_vars

\* C5 witness: back at the loop head after a failed pass that followed a
\* successful one.
C5_Witness ==
  /\ pc = "while"
  /\ waypoints >= 1
  /\ next_dest # current_node
  /\ ShortestPaths(G, current_node, next_dest) = {}

\* C6: an invocation that ends in an error leaves route_coords and
\* route_metrics as they were; the stored route changes only when synthesis
\* completes successfully or CLEAR ROUTE is pressed.
C6_FailureKeepsRoute ==
  [][/\ (pc # "idle" /\ pc' = "idle") =>
          \/ status' = "error" /\ UNCHANGED <<route_coords, route_metrics>>
          \/ status' = "success" /\ pc = "metrics"
               /\ route_coords' # None /\ route_metrics' # None
     /\ (<<route_coords, route_metrics>>' # <<route_coords, route_metrics>>) =>
          \/ pc = "metrics" /\ status' = "success"
          \/ pc = "idle" /\ pc' = "idle" /\ route_coords' = None /\ route_metrics' = None
    ]_vars

\* C6 witness: an invocation has failed while the session held a route.
C6_Witness == status = "error" /\ route_coords # None /\ route_metrics # None

\* The length of the closing leg: of the shortest path home, 0 when there is none.
ClosingLength ==
  IF ClosingPathExists
    THEN RouteLength(G, CHOOSE p \in ShortestPaths(G, current_node, G.orig) : TRUE)
    ELSE 0

\* The sum of the lengths of the edges between the consecutive nodes of a route.
RECURSIVE SumEdges(_, _)
SumEdges(route, i) ==
  IF i >= Len(route) THEN 0
  ELSE EdgeLength(G, route[i], route[i + 1]) + SumEdges(route, i + 1)

\* C7: when a route is returned, every consecutive pair of its path is an
\* edge, the reported distance is the sum of these edges' lengths (in miles),
\* and that sum is the accumulated extension length plus the closing leg's.
C7_DistanceIsPathSum ==
  [][(pc = "metrics" /\ status' = "success") =>
       /\ IsWalk(G, path)
       /\ route_coords' = Some(RouteCoords(path))
       /\ route_metrics'[1].dist = <<SumEdges(path, 1) * 621, SumEdges(path, 1) * 371>>
       /\ route_metrics'[1].nodes = Len(path)
       /\ SumEdges(path, 1) = accumulated_length + ClosingLength
    ]_vars

\* C7 witness: a stored route of several extensions and a closing leg.
C7_Witness ==
  /\ status = "success"
  /\ route_metrics # None
  /\ route_metrics[1].nodes > 3
  /\ route_coords[1][1] = route_coords[1][Len(route_coords[1])]

\* C8: the score calculate_complexity returns lies between 0 and 100.
C8_ScoreInRange == (step = "done") => (0 <= score /\ score <= 100 * PointUnit)

\* C8 witness: the largest rank in a raining flood zone facing a low sun.
C8_Witness ==
  /\ step = "done"
  /\ row.hinHIN_Status # None
  /\ row.hinRank = Some(MaxRank) /\ "hinRank" \in row.cols
  /\ row.fld_FLD = Some("FLOOD_AE/A")
  /\ weather # None
  /\ score = 95 * PointUnit

\* C9 (as claimed): the score returned is a whole number of points.
C9_ScoreIsInteger == (step = "done") => (score % PointUnit = 0)

\* The HIN block's contribution, read when the block has run.
HinContribution == score - 20 * PointUnit

\* C10: the HIN contribution is 0 without hinStatus; with it, 10 when hinRank
\* is absent, 10 + hinRank / 50 for a rank below 1000 and 30 from rank 1000 on;
\* never more than 30.
C10_HinBonus ==
  (step = "flood") =>
    /\ HinContribution <= 30 * PointUnit
    /\ row.hinHIN_Status = None => HinContribution = 0
    /\ row.hinHIN_Status # None =>
         IF "hinRank" \notin row.cols \/ row.hinRank = None
           THEN HinContribution = 10 * PointUnit
           ELSE /\ row.hinRank[1] >= 1000 => HinContribution = 30 * PointUnit
                /\ row.hinRank[1] < 1000 =>
                     (HinContribution - 10 * PointUnit) * 1000
                        = row.hinRank[1] * 20 * PointUnit

\* C10 witness: hinStatus present and hinRank = 2000, over the cap.
C10_Witness ==
  /\ step = "flood"
  /\ row.hinHIN_Status # None
  /\ "hinRank" \in row.cols /\ row.hinRank = Some(2000)
  /\ HinContribution = 30 * PointUnit

\* The row lies in the flood designation.
InFloodZone == "fld_FLD" \in row.cols /\ row.fld_FLD = Some("FLOOD_AE/A")

\* C11: the flood block adds 0 outside the flood designation; inside it, 25
\* when a weather snapshot exists and its conditions are Rain, Thunderstorm or
\* Drizzle, and 10 otherwise: for any other conditions and without a snapshot.
C11_FloodBonus ==
  [][(step = "flood") =>
       /\ ~InFloodZone => score' = score
       /\ (InFloodZone /\ weather = None) => score' = score + 10 * PointUnit
       /\ (InFloodZone /\ weather # None) =>
            /\ weather[1].conditions = "Rain" => score' = score + 25 * PointUnit
            /\ weather[1].conditions = "Thunderstorm" => score' = score + 25 * PointUnit
            /\ weather[1].conditions = "Drizzle" => score' = score + 25 * PointUnit
            /\ weather[1].conditions = "Clear" => score' = score + 10 * PointUnit
            /\ score' - score \in {10 * PointUnit, 25 * PointUnit}
    ]_vars

\* C11 witness: a flood-zone row scored without a weather snapshot, as when dry.
C11_Witness ==
  /\ step = "glare"
  /\ InFloodZone
  /\ weather = None
  /\ row.hinHIN_Status = None
  /\ score = 30 * PointUnit

\* The bearing of the row is present.
HasBearing == "bearing" \in row.cols /\ row.bearing # None

\* |bearing - solarAzimuth| of the row and the snapshot, both present.
GlareDiff ==
  IF row.bearing[1] >= weather[1].solar_azimuth
    THEN row.bearing[1] - weather[1].solar_azimuth
    ELSE weather[1].solar_azimuth - row.bearing[1]

\* The sun of the snapshot stands between 0 and 15 degrees, bounds included.
LowSun == weather[1].solar_altitude >= 0 /\ weather[1].solar_altitude <= 15

\* C12: the glare block adds 20 exactly when the bearing is present, a weather
\* snapshot exists, the sun is between 0 and 15 degrees and the difference
\* between bearing and azimuth is at most 15 or at least 345; otherwise 0.
C12_GlareBonus ==
  [][(step = "glare") =>
       /\ score' - score \in {0, 20 * PointUnit}
       /\ (~HasBearing \/ weather = None) => score' = score
       /\ (HasBearing /\ weather # None) =>
            /\ ~LowSun => score' = score
            /\ (GlareDiff > 15 /\ GlareDiff < 345) => score' = score
            /\ (LowSun /\ GlareDiff <= 15) => score' = score + 20 * PointUnit
            /\ (LowSun /\ GlareDiff >= 345) => score' = score + 20 * PointUnit
    ]_vars

\* C12 witness: the wraparound case at the upper bound of the altitude
\* (bearing 359, azimuth 0, altitude 15) has scored its 20 points.
C12_Witness ==
  /\ step = "return"
  /\ row.bearing = Some(359)
  /\ weather # None
  /\ weather[1].solar_azimuth = 0
  /\ weather[1].solar_altitude = 15
  /\ row.hinHIN_Status = None
  /\ ~InFloodZone
  /\ score = 40 * PointUnit

\* C13: the occlusion label depends on the bearing alone: "Unknown" without a
\* bearing, the sunrise label from 60 to 120, the sunset label from 240 to
\* 300, bounds included, and "No Issue" for every other bearing, whatever the
\* weather and the row's other attributes.
C13_OcclusionLabel ==
  (step = "labelled") =>
    /\ row.bearing = None => occlusion_risk = "Unknown"
    /\ row.bearing # None =>
         /\ row.bearing[1] \in 60..120 =>
              occlusion_risk = "Sunrise (approx 6:30 AM - 8:30 AM)"
         /\ row.bearing[1] \in 240..300 =>
              occlusion_risk = "Sunset (approx 5:30 PM - 7:30 PM)"
         /\ row.bearing[1] \notin (60..120) \cup (240..300) =>
              occlusion_risk = "No Issue (North/South)"
         /\ row.bearing[1] \in {180, 59, 121, 239, 301} =>
              occlusion_risk = "No Issue (North/South)"

\* C13 witness: the upper bound of the sunset range labelled, on a row with
\* other attributes set and a weather snapshot present.
C13_Witness ==
  /\ step = "labelled"
  /\ row.bearing = Some(300)
  /\ occlusion_risk = "Sunset (approx 5:30 PM - 7:30 PM)"
  /\ row.hinHIN_Status # None
  /\ InFloodZone
  /\ weather # None

====
